---- MODULE Spec2Model ----
(***************************************************************************)
(* Model of src/app.py, the Streamlit "OCR Text Extractor" script.         *)
(*                                                                         *)
(* One run of the script is a walk of pc from "setup" to "done" (or to     *)
(* "crashed" when an exception leaves the script).  Streamlit runs the     *)
(* script again, in a fresh namespace, on every widget interaction: the    *)
(* model lets MaxRuns runs follow each other.  The widget values of a run  *)
(* are inp; what the external libraries and services answer in that run is *)
(* resp (an answer that is never requested is not enumerated).             *)
(*                                                                         *)
(* Texts are sequences of one-character strings, byte strings sequences of *)
(* byte values.                                                            *)
(***************************************************************************)
EXTENDS Integers, Sequences, FiniteSets, TLC

VARIABLES run, pc, inp, resp, seed, computervision_client, google_client,
          image_stream, lang_code, ocr_texts, tesseract_text, azure_text,
          google_text, combined_result, ground_truth_text, polls, raised,
          display, calls

vars == <<run, pc, inp, resp, seed, computervision_client, google_client,
          image_stream, lang_code, ocr_texts, tesseract_text, azure_text,
          google_text, combined_result, ground_truth_text, polls, raised,
          display, calls>>

\* Bounds of the model.
MaxRuns == 2
MaxPolls == 1

----------------------------------------------------------------------------
\* Values

\* A name of the script that no statement of the run has bound yet.
Unbound == <<"<unbound>">>
\* An answer the run never asks for / an answer that is an exception.
NotCalled == <<"<not called>">>
RaiseT == <<"<raise>">>
\* st.file_uploader returns None.
NoFile == <<-1>>
\* DetectorFactory.seed before the script sets it (langdetect's default).
NoSeed == "None"

LF == "\n"

AzureMsg == <<"A","z","u","r","e"," ","c","r","e","d","e","n","t","i","a","l","s"," ","a","r","e"," ","n","o","t"," ","s","e","t",".">>

GoogleMsg == <<"G","o","o","g","l","e"," ","C","l","o","u","d"," ","V","i","s","i","o","n"," ","A","P","I"," ","c","r","e","d","e","n","t","i","a","l","s"," ","a","r","e"," ","n","o","t"," ","s","e","t",".">>

\* What pytesseract.image_to_string may return.
TessTexts == { <<"a", LF>>, <<"b">> }
\* The lines of an Azure read result (one read_result), and the descriptions of
\* Google's text_annotations.
AzureLines == { << <<"a">> >>, << <<"b">>, <<"a">> >> }
GoogleAnnots == { << <<"a", LF>> >>, << <<"b">>, <<"b">> >> }
\* The bytes of an uploaded ground-truth file: "a\n", "ba", empty, and a byte
\* string that is not UTF-8.
GroundTruthFiles == { <<97, 10>>, <<98, 97>>, <<>>, <<255>> }
\* The PNG re-encoding of the uploaded image (its first bytes).
PngBytes == <<137, 80, 78, 71>>

LanguageOptions == {"Automatic Detection", "English", "Hindi"}
\* uploaded_image: none, a readable image, a file PIL cannot identify, and a
\* readable image whose mode PNG cannot store (image.save raises).
Images == {"none", "png", "corrupt", "cmyk"}
DetectAnswers == {"en", "hi", "fr", "raise"}

----------------------------------------------------------------------------
\* Pure functions

\* "\n".join(parts)
RECURSIVE Join(_)
Join(parts) ==
  IF parts = <<>> THEN <<>>
  ELSE IF Len(parts) = 1 THEN parts[1]
  ELSE parts[1] \o <<LF>> \o Join(Tail(parts))

\* text += line.text + "\n" over the lines
RECURSIVE AzureText(_)
AzureText(lines) ==
  IF lines = <<>> THEN <<>> ELSE Head(lines) \o <<LF>> \o AzureText(Tail(lines))

\* bytes.decode('utf-8') on the byte values the model uses: an ASCII byte is
\* its character, 0xFF is never valid UTF-8.
Chr == (97 :> "a") @@ (98 :> "b") @@ (10 :> LF)
Decodable(bytes) == \A k \in 1..Len(bytes) : bytes[k] \in DOMAIN Chr
Decode(bytes) == [k \in 1..Len(bytes) |-> Chr[bytes[k]]]

\* difflib.SequenceMatcher(None, a, b): the matching blocks of a[alo..ahi-1]
\* and b[blo..bhi-1] (1-based, no junk: autojunk needs 200 elements).
Min(x, y) == IF x < y THEN x ELSE y
MatchAt(a, b, i, j, k) == \A d \in 0..(k - 1) : a[i + d] = b[j + d]
Blocks(a, b, alo, ahi, blo, bhi) ==
  { t \in (alo..(ahi - 1)) \X (blo..(bhi - 1)) \X (1..Min(ahi - alo, bhi - blo)) :
      /\ t[1] + t[3] <= ahi
      /\ t[2] + t[3] <= bhi
      /\ MatchAt(a, b, t[1], t[2], t[3]) }
\* find_longest_match: the longest block, the earliest in a, then in b.
Better(t, u) ==
  \/ t[3] > u[3]
  \/ t[3] = u[3] /\ t[1] < u[1]
  \/ t[3] = u[3] /\ t[1] = u[1] /\ t[2] <= u[2]
find_longest_match(a, b, alo, ahi, blo, bhi) ==
  LET bs == Blocks(a, b, alo, ahi, blo, bhi)
  IN CHOOSE t \in bs : \A u \in bs : Better(t, u)
\* get_matching_blocks: the sum of the sizes of the blocks.
RECURSIVE Matches(_, _, _, _, _, _)
Matches(a, b, alo, ahi, blo, bhi) ==
  IF Blocks(a, b, alo, ahi, blo, bhi) = {} THEN 0
  ELSE LET t == find_longest_match(a, b, alo, ahi, blo, bhi)
       IN t[3] + Matches(a, b, alo, t[1], blo, t[2])
               + Matches(a, b, t[1] + t[3], ahi, t[2] + t[3], bhi)

\* calculate_similarity: SequenceMatcher.ratio() = 2.0 * matches / length, and
\* 1.0 when both texts are empty; kept as a fraction.
calculate_similarity(text1, text2) ==
  LET length == Len(text1) + Len(text2)
  IN IF length = 0 THEN [num |-> 1, den |-> 1]
     ELSE [num |-> 2 * Matches(text1, text2, 1, Len(text1) + 1, 1, Len(text2) + 1),
           den |-> length]

\* f"{accuracy * 100:.2f}%": the hundredths of a percent, rounded to nearest
\* (an exact tie needs a length that is a multiple of 64).
Percent(acc) == (2 * 10000 * acc.num + acc.den) \div (2 * acc.den)

\* detect_language without its try/except.
detect_language_no_except(answer) == answer

\* detect_language: langdetect's answer, "unknown" when detect raises (the bare
\* except of line 101).  An answer "raise" that came back from here would be an
\* exception leaving the function.
detect_language(answer) == IF answer = "raise" THEN "unknown" ELSE answer

map_language_code(detected_language) ==
  IF detected_language = "en" THEN "eng"
  ELSE IF detected_language = "hi" THEN "hin"
  ELSE "eng"

\* collections.Counter(results): the distinct results in the order of their
\* first occurrence, each with its count.
RECURSIVE Keys(_)
Keys(results) ==
  IF results = <<>> THEN <<>>
  ELSE LET init == Keys(SubSeq(results, 1, Len(results) - 1))
           last == results[Len(results)]
       IN IF \E k \in 1..Len(init) : init[k] = last THEN init ELSE Append(init, last)
Count(results, x) == Cardinality({k \in 1..Len(results) : results[k] = x})

\* combine_ocr_results with the last of the most common results kept.
combine_ocr_results_last(results) ==
  LET keys == Keys(results)
      best == CHOOSE k \in 1..Len(keys) :
                /\ \A m \in 1..Len(keys) : Count(results, keys[m]) <= Count(results, keys[k])
                /\ \A m \in (k + 1)..Len(keys) : Count(results, keys[m]) < Count(results, keys[k])
  IN keys[best]

\* Counter(results).most_common(1)[0][0]: heapq.nlargest(1, items), which is
\* max() over the items in insertion order and keeps the first of the items
\* with the highest count.
combine_ocr_results(results) ==
  LET keys == Keys(results)
      best == CHOOSE k \in 1..Len(keys) :
                /\ \A m \in 1..Len(keys) : Count(results, keys[m]) <= Count(results, keys[k])
                /\ \A m \in 1..(k - 1) : Count(results, keys[m]) < Count(results, keys[k])
  IN keys[best]

----------------------------------------------------------------------------
\* Inputs of a run, and the answers of the libraries and services in it

Inputs ==
  [ language_option : LanguageOptions,
    use_tesseract : BOOLEAN, use_azure : BOOLEAN,
    use_google : BOOLEAN, use_combined : BOOLEAN,
    uploaded_image : Images,
    uploaded_text : {NoFile} \cup GroundTruthFiles,
    azure_subscription_key : {"", "key"},
    azure_endpoint : {"", "https://ocr.example"},
    google_credentials : BOOLEAN ]

NoInput ==
  [ language_option |-> "English",
    use_tesseract |-> FALSE, use_azure |-> FALSE,
    use_google |-> FALSE, use_combined |-> FALSE,
    uploaded_image |-> "none", uploaded_text |-> NoFile,
    azure_subscription_key |-> "", azure_endpoint |-> "",
    google_credentials |-> FALSE ]

NoResponse ==
  [ prepass |-> "n/a", detect |-> "n/a",
    tesseract |-> [l \in {"eng", "hin"} |-> NotCalled],
    azure_submit |-> "n/a", azure_polls |-> 0, azure_status |-> "n/a",
    azure_lines |-> <<>>, google |-> "n/a", google_annots |-> <<>> ]

\* The language the run asks Tesseract for when langdetect answers d.
LangOf(i, d) ==
  IF i.language_option = "Automatic Detection" THEN map_language_code(detect_language(d))
  ELSE IF i.language_option = "English" THEN "eng" ELSE "hin"

\* The answers a run with inputs i can receive: one per call the run makes, none
\* for a call it does not reach.
ResponsesFor(i) ==
  LET live == i.uploaded_image = "png"
      P == IF live /\ i.language_option = "Automatic Detection"
           THEN {<<"raise", "n/a">>} \cup {<<"ok", d>> : d \in DetectAnswers}
           ELSE {<<"n/a", "n/a">>}
      T(p) == IF live /\ p[1] # "raise" /\ i.use_tesseract
              THEN {RaiseT} \cup TessTexts ELSE {NotCalled}
      A(t) == IF /\ live /\ t # RaiseT /\ i.use_azure
                 /\ i.azure_subscription_key # "" /\ i.azure_endpoint # ""
              THEN {<<"raise", 0, "n/a", <<>> >>}
                   \cup {<<"ok", n, "failed", <<>> >> : n \in 0..MaxPolls}
                   \cup {<<"ok", n, "succeeded", l>> : n \in 0..MaxPolls, l \in AzureLines}
              ELSE {<<"n/a", 0, "n/a", <<>> >>}
      G(t, a) == IF /\ live /\ t # RaiseT /\ a[1] # "raise"
                    /\ i.use_google /\ i.google_credentials
                 THEN {<<"raise", <<>> >>} \cup {<<"ok", g>> : g \in GoogleAnnots}
                 ELSE {<<"n/a", <<>> >>}
      R(p, t, a, g) ==
        [ prepass |-> p[1], detect |-> p[2],
          tesseract |-> [l \in {"eng", "hin"} |->
                           IF l = LangOf(i, p[2]) THEN t ELSE NotCalled],
          azure_submit |-> a[1], azure_polls |-> a[2], azure_status |-> a[3],
          azure_lines |-> a[4], google |-> g[1], google_annots |-> g[2] ]
  IN UNION { UNION { UNION { { R(p, t, a, g) : g \in G(t, a) }
                             : a \in A(t) } : t \in T(p) } : p \in P }

----------------------------------------------------------------------------
\* The state of a run as one record, and the statements of the script as
\* functions on it

State ==
  [ pc |-> pc, inp |-> inp, resp |-> resp, seed |-> seed,
    computervision_client |-> computervision_client, google_client |-> google_client,
    image_stream |-> image_stream, lang_code |-> lang_code, ocr_texts |-> ocr_texts,
    tesseract_text |-> tesseract_text, azure_text |-> azure_text,
    google_text |-> google_text, combined_result |-> combined_result,
    ground_truth_text |-> ground_truth_text, polls |-> polls, raised |-> raised,
    display |-> display, calls |-> calls ]

\* The script's namespace before its first statement, in a process whose
\* DetectorFactory.seed is sd.
Fresh(i, r, sd) ==
  [ pc |-> "setup", inp |-> i, resp |-> r, seed |-> sd,
    computervision_client |-> FALSE, google_client |-> FALSE,
    image_stream |-> [buf |-> <<>>, pos |-> 0, bound |-> FALSE],
    lang_code |-> "<unbound>", ocr_texts |-> <<>>,
    tesseract_text |-> Unbound, azure_text |-> Unbound,
    google_text |-> Unbound, combined_result |-> Unbound,
    ground_truth_text |-> Unbound, polls |-> 0, raised |-> "",
    display |-> <<>>, calls |-> <<>> ]

\* A widget the run shows, and a call the run makes.
Widget(kind, label, text, pct) == [kind |-> kind, label |-> label, text |-> text, pct |-> pct]
Call(fn, lang, pos, got) == [fn |-> fn, lang |-> lang, pos |-> pos, got |-> got]

Show(s, w) == [s EXCEPT !.display = Append(@, w)]
Log(s, c) == [s EXCEPT !.calls = Append(@, c)]

\* except Exception as e: st.error(f"Error processing image: {e}"), and the
\* script goes on after the if block.
Catch(s, exc) ==
  [s EXCEPT !.raised = exc,
            !.display = Append(@, Widget("error", "Error processing image", <<exc>>, -1)),
            !.pc = "footer"]

\* An exception outside the try block ends the script.
Crash(s, exc) == [s EXCEPT !.raised = exc, !.pc = "crashed"]

\* BytesIO.read(): the bytes from the position to the end.
Rest(stream) == SubSeq(stream.buf, stream.pos + 1, Len(stream.buf))

\* setup without line 59.
setup_no_seed(s) ==
  [s EXCEPT !.computervision_client =
              s.inp.azure_subscription_key # "" /\ s.inp.azure_endpoint # "",
            !.google_client = s.inp.google_credentials,
            !.pc = IF s.inp.uploaded_image # "none" THEN "open" ELSE "footer"]

\* Lines 43-59 and the test of line 122.
setup(s) ==
  [s EXCEPT !.computervision_client =
              s.inp.azure_subscription_key # "" /\ s.inp.azure_endpoint # "",
            !.google_client = s.inp.google_credentials,
            !.seed = "0",
            !.pc = IF s.inp.uploaded_image # "none" THEN "open" ELSE "footer"]

\* Lines 123-125: Image.open and st.image.
open_image(s) ==
  IF s.inp.uploaded_image = "corrupt" THEN Crash(s, "UnidentifiedImageError")
  ELSE [Show(s, Widget("image", "Uploaded Image", <<>>, -1)) EXCEPT !.pc = "save"]

\* Lines 127-132: the PNG byte stream.
save_image(s) ==
  IF s.inp.uploaded_image = "cmyk"
  THEN Crash([s EXCEPT !.image_stream = [buf |-> <<>>, pos |-> 0, bound |-> TRUE]], "OSError")
  ELSE [Show(s, Widget("write", "Extracted Text:", <<>>, -1))
          EXCEPT !.image_stream = [buf |-> PngBytes, pos |-> 0, bound |-> TRUE],
                 !.pc = "language"]

\* Lines 135-141; answer is what langdetect's detect returns.
language(s, answer) ==
  IF s.inp.language_option = "Automatic Detection"
  THEN LET s1 == Log(s, Call("pytesseract.image_to_string", "hin+eng", -1, 0))
       IN IF s.resp.prepass = "raise" THEN Catch(s1, "TesseractError")
          ELSE LET s2 == Log(s1, Call("detect", "", -1, 0))
                   detected_language == detect_language(answer)
               IN IF detected_language = "raise" THEN Catch(s2, "LangDetectException")
                  ELSE [s2 EXCEPT !.lang_code = map_language_code(detected_language),
                                  !.pc = "tesseract"]
  ELSE IF s.inp.language_option = "English"
  THEN [s EXCEPT !.lang_code = "eng", !.pc = "tesseract"]
  ELSE [s EXCEPT !.lang_code = "hin", !.pc = "tesseract"]

\* Lines 143-150.
ocr_tesseract(s) ==
  LET s0 == [s EXCEPT !.ocr_texts = <<>>]
  IN IF ~s.inp.use_tesseract THEN [s0 EXCEPT !.pc = "azure"]
     ELSE LET s1 == Log(s0, Call("get_tesseract_text", s.lang_code, -1, 0))
              text == s.resp.tesseract[s.lang_code]
          IN IF text = RaiseT THEN Catch(s1, "TesseractError")
             ELSE [Show(s1, Widget("text_area", "Tesseract OCR Result", text, -1))
                     EXCEPT !.tesseract_text = text,
                            !.ocr_texts = Append(@, text),
                            !.pc = "azure"]

\* azure_done without the image_stream.seek(0) of line 157.
azure_done_no_seek(s, text) ==
  [Show(s, Widget("text_area", "Azure OCR Result", text, -1))
     EXCEPT !.azure_text = text,
            !.ocr_texts = Append(@, text),
            !.pc = "google"]

\* Lines 155-157: the result of get_azure_text is appended and shown, and the
\* stream is rewound.
azure_done(s, text) ==
  [Show(s, Widget("text_area", "Azure OCR Result", text, -1))
     EXCEPT !.azure_text = text,
            !.ocr_texts = Append(@, text),
            !.image_stream.pos = 0,
            !.pc = "google"]

\* Lines 152-154 and 68-73: get_azure_text up to the polling loop.
ocr_azure(s) ==
  IF ~s.inp.use_azure THEN [s EXCEPT !.pc = "google"]
  ELSE LET s1 == Log(s, Call("get_azure_text", "", s.image_stream.pos, 0))
       IN IF ~s.computervision_client THEN azure_done(s1, AzureMsg)
          ELSE LET s2 == [Log(s1, Call("read_in_stream", "", s.image_stream.pos,
                                       Len(Rest(s.image_stream))))
                            EXCEPT !.image_stream.pos = Len(s.image_stream.buf)]
               IN IF s.resp.azure_submit = "raise" THEN Catch(s2, "HttpOperationError")
                  ELSE [s2 EXCEPT !.polls = 0, !.pc = "azure_poll"]

\* Lines 76-87: one get_read_result; the loop goes on while the operation is
\* running or not started.
azure_poll(s) ==
  LET s1 == Log(s, Call("get_read_result", "", -1, 0))
  IN IF s.polls < s.resp.azure_polls THEN [s1 EXCEPT !.polls = @ + 1]
     ELSE azure_done(s1, IF s.resp.azure_status = "succeeded"
                         THEN AzureText(s.resp.azure_lines) ELSE <<>>)

\* Lines 161-164 and 89-96: get_google_text, its result appended and shown,
\* and the stream rewound.
call_google(s) ==
       LET s1 == Log(s, Call("get_google_text", "", s.image_stream.pos, 0))
           done(t, text) ==
             [Show(t, Widget("text_area", "Google OCR Result", text, -1))
                EXCEPT !.google_text = text,
                       !.ocr_texts = Append(@, text),
                       !.image_stream.pos = 0,
                       !.pc = "combine"]
       IN IF ~s.google_client THEN done(s1, GoogleMsg)
          ELSE LET s2 == [Log(s1, Call("text_detection", "", s.image_stream.pos,
                                       Len(Rest(s.image_stream))))
                            EXCEPT !.image_stream.pos = Len(s.image_stream.buf)]
               IN IF s.resp.google = "raise" THEN Catch(s2, "GoogleAPICallError")
                  ELSE done(s2, Join(s.resp.google_annots))

\* The Google branch written as an elif of the Tesseract and Azure branches.
ocr_google_elif(s) ==
  IF ~s.inp.use_google \/ s.inp.use_tesseract \/ s.inp.use_azure
  THEN [s EXCEPT !.pc = "combine"] ELSE call_google(s)

\* Lines 159-164.
ocr_google(s) ==
  IF ~s.inp.use_google THEN [s EXCEPT !.pc = "combine"] ELSE call_google(s)

\* Lines 166-169.
combine(s) ==
  IF s.inp.use_combined /\ s.ocr_texts # <<>>
  THEN LET result == combine_ocr_results(s.ocr_texts)
       IN [Show(s, Widget("text_area", "Combined OCR Result", result, -1))
             EXCEPT !.combined_result = result, !.pc = "ground_truth"]
  ELSE [s EXCEPT !.pc = "ground_truth"]

\* Lines 171-174.
read_ground_truth(s) ==
  IF s.inp.uploaded_text = NoFile THEN [s EXCEPT !.pc = "footer"]
  ELSE IF ~Decodable(s.inp.uploaded_text) THEN Catch(s, "UnicodeDecodeError")
  ELSE LET text == Decode(s.inp.uploaded_text)
       IN [Show(s, Widget("text_area", "Ground Truth Text", text, -1))
             EXCEPT !.ground_truth_text = text, !.pc = "score_tesseract"]

\* One "if use_x:" of lines 177-191: reading a name that is not bound raises
\* NameError.
score(s, selected, text, label, next) ==
  IF ~selected THEN [s EXCEPT !.pc = next]
  ELSE IF text = Unbound THEN Catch(s, "NameError")
  ELSE [Show(s, Widget("write", label, <<>>,
                       Percent(calculate_similarity(text, s.ground_truth_text))))
          EXCEPT !.pc = next]

score_tesseract(s) ==
  score(s, s.inp.use_tesseract, s.tesseract_text, "Tesseract Accuracy", "score_azure")
score_azure(s) ==
  score(s, s.inp.use_azure, s.azure_text, "Azure Accuracy", "score_google")
score_google(s) ==
  score(s, s.inp.use_google, s.google_text, "Google Accuracy", "score_combined")
score_combined(s) ==
  score(s, s.inp.use_combined, s.combined_result, "Combined Accuracy", "footer")

\* Lines 196-204.
footer(s) == [Show(s, Widget("markdown", "footer", <<>>, -1)) EXCEPT !.pc = "done"]

\* The statement at s.pc, with langdetect's answer of this run.
Step(s) ==
  CASE s.pc = "setup" -> setup(s)
    [] s.pc = "open" -> open_image(s)
    [] s.pc = "save" -> save_image(s)
    [] s.pc = "language" -> language(s, s.resp.detect)
    [] s.pc = "tesseract" -> ocr_tesseract(s)
    [] s.pc = "azure" -> ocr_azure(s)
    [] s.pc = "azure_poll" -> azure_poll(s)
    [] s.pc = "google" -> ocr_google(s)
    [] s.pc = "combine" -> combine(s)
    [] s.pc = "ground_truth" -> read_ground_truth(s)
    [] s.pc = "score_tesseract" -> score_tesseract(s)
    [] s.pc = "score_azure" -> score_azure(s)
    [] s.pc = "score_google" -> score_google(s)
    [] s.pc = "score_combined" -> score_combined(s)
    [] s.pc = "footer" -> footer(s)
    [] OTHER -> s

\* The script run to its end.
RECURSIVE Exec(_)
Exec(s) == IF s.pc \in {"done", "crashed", "idle"} THEN s ELSE Exec(Step(s))

\* What langdetect's detect can return: with DetectorFactory.seed set it is a
\* function of the text (the answer of this run); without a seed the detector
\* is randomised.
DetectOutcomes(s) == IF s.seed = "0" THEN {s.resp.detect} ELSE DetectAnswers

----------------------------------------------------------------------------
\* Actions

Become(s) ==
  /\ pc' = s.pc /\ inp' = s.inp /\ resp' = s.resp /\ seed' = s.seed
  /\ computervision_client' = s.computervision_client
  /\ google_client' = s.google_client
  /\ image_stream' = s.image_stream /\ lang_code' = s.lang_code
  /\ ocr_texts' = s.ocr_texts /\ tesseract_text' = s.tesseract_text
  /\ azure_text' = s.azure_text /\ google_text' = s.google_text
  /\ combined_result' = s.combined_result
  /\ ground_truth_text' = s.ground_truth_text
  /\ polls' = s.polls /\ raised' = s.raised
  /\ display' = s.display /\ calls' = s.calls

Init ==
  /\ run = 0
  /\ pc = "idle" /\ inp = NoInput /\ resp = NoResponse /\ seed = NoSeed
  /\ computervision_client = FALSE /\ google_client = FALSE
  /\ image_stream = [buf |-> <<>>, pos |-> 0, bound |-> FALSE]
  /\ lang_code = "<unbound>" /\ ocr_texts = <<>>
  /\ tesseract_text = Unbound /\ azure_text = Unbound
  /\ google_text = Unbound /\ combined_result = Unbound
  /\ ground_truth_text = Unbound /\ polls = 0 /\ raised = ""
  /\ display = <<>> /\ calls = <<>>

\* The user sets the widgets: Streamlit runs the script from its first line in
\* a fresh namespace; DetectorFactory.seed belongs to the process and stays.
Interact ==
  /\ pc = "idle" /\ run < MaxRuns
  /\ run' = run + 1
  /\ \E i \in Inputs : \E r \in ResponsesFor(i) : Become(Fresh(i, r, seed))

Setup == pc = "setup" /\ Become(setup(State)) /\ UNCHANGED run
OpenImage == pc = "open" /\ Become(open_image(State)) /\ UNCHANGED run
SaveImage == pc = "save" /\ Become(save_image(State)) /\ UNCHANGED run
Language ==
  /\ pc = "language"
  /\ \E answer \in DetectOutcomes(State) : Become(language(State, answer))
  /\ UNCHANGED run
OcrTesseract == pc = "tesseract" /\ Become(ocr_tesseract(State)) /\ UNCHANGED run
OcrAzure == pc = "azure" /\ Become(ocr_azure(State)) /\ UNCHANGED run
AzurePoll == pc = "azure_poll" /\ Become(azure_poll(State)) /\ UNCHANGED run
OcrGoogle == pc = "google" /\ Become(ocr_google(State)) /\ UNCHANGED run
Combine == pc = "combine" /\ Become(combine(State)) /\ UNCHANGED run
ReadGroundTruth == pc = "ground_truth" /\ Become(read_ground_truth(State)) /\ UNCHANGED run
ScoreTesseract == pc = "score_tesseract" /\ Become(score_tesseract(State)) /\ UNCHANGED run
ScoreAzure == pc = "score_azure" /\ Become(score_azure(State)) /\ UNCHANGED run
ScoreGoogle == pc = "score_google" /\ Become(score_google(State)) /\ UNCHANGED run
ScoreCombined == pc = "score_combined" /\ Become(score_combined(State)) /\ UNCHANGED run
Footer == pc = "footer" /\ Become(footer(State)) /\ UNCHANGED run

\* The run is over and the page waits for the next interaction.
Finish ==
  /\ pc \in {"done", "crashed"}
  /\ Become(([Fresh(NoInput, NoResponse, seed) EXCEPT !.pc = "idle"]))
  /\ UNCHANGED run

Next ==
  \/ Interact \/ Setup \/ OpenImage \/ SaveImage \/ Language
  \/ OcrTesseract \/ OcrAzure \/ AzurePoll \/ OcrGoogle \/ Combine
  \/ ReadGroundTruth \/ ScoreTesseract \/ ScoreAzure \/ ScoreGoogle
  \/ ScoreCombined \/ Footer \/ Finish

Spec == Init /\ [][Next]_vars

----------------------------------------------------------------------------
\* Properties

BackendFns == {"get_tesseract_text", "get_azure_text", "get_google_text"}
IsBackendCall(c) == c.fn \in BackendFns
\* The backend callers the run has called, in the order of the calls.
BackendCalls ==
  LET bc == SelectSeq(calls, IsBackendCall) IN [k \in 1..Len(bc) |-> bc[k].fn]
\* The backend callers of the selected checkboxes, in the order of the script.
SelectedBackends ==
  (IF inp.use_tesseract THEN <<"get_tesseract_text">> ELSE <<>>)
  \o (IF inp.use_azure THEN <<"get_azure_text">> ELSE <<>>)
  \o (IF inp.use_google THEN <<"get_google_text">> ELSE <<>>)
IsPrefix(a, b) == Len(a) <= Len(b) /\ SubSeq(b, 1, Len(a)) = a

IsError(w) == w.kind = "error"
IsAccuracy(w) == w.kind = "write" /\ w.pct >= 0
IsResult(w) == w.kind = "text_area" /\ w.label # "Ground Truth Text"
Errors == SelectSeq(display, IsError)
Accuracies == SelectSeq(display, IsAccuracy)
Results == SelectSeq(display, IsResult)

\* The run had an image, is over and no exception was raised in it.
RunSucceeded == pc = "done" /\ inp.uploaded_image # "none" /\ raised = ""

\* C1: in a run with an uploaded image, a failure raised while the image is
\* handled (opening and re-encoding included) ends in exactly one 'Error
\* processing image' message, with nothing but the footer shown after it, and
\* the script reaches the footer: no failure leaves the script.
C1_SingleCatchAll ==
  (pc \in {"done", "crashed"} /\ inp.uploaded_image # "none" /\ raised # "")
    => /\ pc = "done"
       /\ Len(Errors) = 1
       /\ Len(display) >= 2
       /\ display[Len(display)].kind = "markdown"
       /\ display[Len(display) - 1].kind = "error"

\* C2: with an image and a ground-truth file, a run that no library call fails
\* shows an accuracy for every selected option (Tesseract, Azure, Google,
\* Combined) and for no other, each computed from that option's own result text
\* and the ground truth.
C2_AccuracyForEverySelected ==
  LET gt == Decode(inp.uploaded_text)
      acc(label, text) == <<[label |-> label, pct |-> Percent(calculate_similarity(text, gt))]>>
      expected ==
        (IF inp.use_tesseract THEN acc("Tesseract Accuracy", tesseract_text) ELSE <<>>)
        \o (IF inp.use_azure THEN acc("Azure Accuracy", azure_text) ELSE <<>>)
        \o (IF inp.use_google THEN acc("Google Accuracy", google_text) ELSE <<>>)
        \o (IF inp.use_combined THEN acc("Combined Accuracy", combined_result) ELSE <<>>)
  IN (/\ pc = "done" /\ inp.uploaded_image # "none"
      /\ inp.uploaded_text # NoFile /\ Decodable(inp.uploaded_text)
      /\ raised \in {"", "NameError"})
       => [k \in 1..Len(Accuracies) |->
             [label |-> Accuracies[k].label, pct |-> Accuracies[k].pct]] = expected

\* C3 as stated: in every run with an image that does not fail, exactly one
\* backend is called.
C3_ExactlyOneBackend == RunSucceeded => Len(BackendCalls) = 1

\* C3 as amended: in every run with an image that does not fail, the backends
\* called are the selected ones, each once: as many as backend checkboxes are
\* selected, from none to three.
C3_EverySelectedBackend ==
  RunSucceeded =>
    /\ Len(BackendCalls) = Cardinality({b \in {"t", "a", "g"} :
                                          \/ b = "t" /\ inp.use_tesseract
                                          \/ b = "a" /\ inp.use_azure
                                          \/ b = "g" /\ inp.use_google})
    /\ \A f \in BackendFns :
         Cardinality({k \in 1..Len(BackendCalls) : BackendCalls[k] = f})
           = IF \E k \in 1..Len(SelectedBackends) : SelectedBackends[k] = f THEN 1 ELSE 0

C3_Witness == RunSucceeded /\ Len(BackendCalls) = 3

\* C4: langdetect is called only under 'Automatic Detection'; 'English' gives
\* 'eng' and 'Hindi' gives 'hin'; under automatic detection 'hi' gives 'hin' and
\* every other answer, a detector exception included, gives 'eng'; the language
\* passed to get_tesseract_text is 'eng' or 'hin'; and no detector exception
\* reaches the handler of the run.
C4_LanguageCode ==
  /\ inp.language_option # "Automatic Detection"
       => \A k \in 1..Len(calls) :
            calls[k].fn \notin {"detect", "pytesseract.image_to_string"}
  /\ lang_code # "<unbound>"
       => lang_code = CASE inp.language_option = "English" -> "eng"
                        [] inp.language_option = "Hindi" -> "hin"
                        [] OTHER -> IF resp.detect = "hi" THEN "hin" ELSE "eng"
  /\ \A k \in 1..Len(calls) :
       calls[k].fn = "get_tesseract_text" => calls[k].lang \in {"eng", "hin"}
  /\ raised # "LangDetectException"
  /\ (resp.detect = "raise" /\ pc \notin {"setup", "open", "save", "language"})
       => lang_code = "eng"

C4_Witness ==
  /\ inp.language_option = "Automatic Detection" /\ resp.detect = "raise"
  /\ pc = "done" /\ raised = "" /\ lang_code = "eng"
  /\ \E k \in 1..Len(calls) : calls[k].fn = "get_tesseract_text" /\ calls[k].lang = "eng"

C6_BackendOrder ==
  /\ IsPrefix(BackendCalls, SelectedBackends)
  /\ RunSucceeded
       => /\ BackendCalls = SelectedBackends
          /\ ocr_texts = (IF inp.use_tesseract THEN <<tesseract_text>> ELSE <<>>)
                         \o (IF inp.use_azure THEN <<azure_text>> ELSE <<>>)
                         \o (IF inp.use_google THEN <<google_text>> ELSE <<>>)
          /\ [k \in 1..Len(Results) |-> Results[k].text]
               = ocr_texts \o (IF combined_result # Unbound THEN <<combined_result>> ELSE <<>>)
  /\ \A k \in 1..Len(calls) :
       /\ calls[k].fn \in {"get_azure_text", "get_google_text"} => calls[k].pos = 0
       /\ calls[k].fn \in {"read_in_stream", "text_detection"} => calls[k].got = Len(PngBytes)

C6_Witness ==
  /\ RunSucceeded
  /\ BackendCalls = <<"get_tesseract_text", "get_azure_text", "get_google_text">>
  /\ \E k \in 1..Len(calls) : calls[k].fn = "read_in_stream"
  /\ \E k \in 1..Len(calls) : calls[k].fn = "text_detection" /\ calls[k].got = Len(PngBytes)

\* C7: the combined result is one of the results of the backends that ran, no
\* result occurs more often than it, and every result that occurs as often
\* comes after it in the order Tesseract, Azure, Google.
Occurrences(x) == Cardinality({k \in 1..Len(ocr_texts) : ocr_texts[k] = x})
FirstIndex(x) == CHOOSE k \in 1..Len(ocr_texts) :
                   ocr_texts[k] = x /\ \A m \in 1..(k - 1) : ocr_texts[m] # x
C7_MostCommonFirst ==
  combined_result # Unbound
    => /\ \E k \in 1..Len(ocr_texts) : ocr_texts[k] = combined_result
       /\ \A k \in 1..Len(ocr_texts) :
            /\ Occurrences(ocr_texts[k]) <= Occurrences(combined_result)
            /\ Occurrences(ocr_texts[k]) = Occurrences(combined_result)
                 => FirstIndex(combined_result) <= k

C7_Witness ==
  /\ combined_result # Unbound /\ Len(ocr_texts) = 3
  /\ ocr_texts[1] # ocr_texts[2] /\ ocr_texts[1] # ocr_texts[3]
  /\ ocr_texts[2] # ocr_texts[3]
  /\ combined_result = tesseract_text

\* C8: no run reads a result name it has not assigned (tesseract_text,
\* azure_text, google_text, combined_result): no NameError is raised, and with
\* Combined selected, a ground truth and no backend the run ends without an
\* error message.
C8_AssignedBeforeRead ==
  /\ raised # "NameError"
  /\ (/\ pc = "done" /\ inp.uploaded_image = "png" /\ inp.use_combined
      /\ ~inp.use_tesseract /\ ~inp.use_azure /\ ~inp.use_google
      /\ inp.uploaded_text # NoFile /\ Decodable(inp.uploaded_text)
      /\ raised \in {"", "NameError"})
       => Errors = <<>> /\ Results = <<>>

====
